---- MODULE Spec2Model ----
(***************************************************************************)
(* Model of the ledger engine of BankSystemProject.py: the classes         *)
(* SavingsAccount, CurrentAccount, Customer and Bank, the three JSON files *)
(* Bank writes, and AccountManagementView.delete_account, the one handler  *)
(* that mutates the Bank's maps directly.                                  *)
(*                                                                         *)
(* Money is exact: a balance is an integer number of 1/Unit rupees, and    *)
(* every initial balance and amount is a multiple of Unit, so that every   *)
(* interest computation of a run divides exactly.  An interest rate is an  *)
(* integer number of hundredths (1 is the rate 0.01).  Binary floating     *)
(* point rounding is not modelled.                                         *)
(*                                                                         *)
(* A Python dict is a sequence of entries [k, v] in insertion order.       *)
(* A file is <<>> when it does not exist and <<content>> when it does.     *)
(***************************************************************************)
EXTENDS Integers, Sequences, FiniteSets, TLC

VARIABLES
    customers,          \* Bank._customers
    accounts,           \* Bank._accounts
    history,            \* Bank._transaction_history
    customer_file,      \* customers.json
    account_file,       \* accounts.json
    transactions_file,  \* transactions.json
    clock,              \* datetime.datetime.now(), as a count of records
    last,               \* the call made last and what it returned
    effects,            \* per account, the balance its reported results add up to
    failures,           \* the writes that have failed so far
    threads             \* the calls two threads are running, and where they are

mem == <<customers, accounts, history>>
disk == <<customer_file, account_file, transactions_file>>
vars == <<customers, accounts, history, customer_file, account_file,
          transactions_file, clock, last, effects, failures, threads>>

\* ------------------------------------------------------------------ bounds

\* Activity records ever appended in a run (the clock that stamps them).
MaxClock == 2

\* Writes the store fails in a run, where it may fail at all.
MaxFailures == 1

\* The three files _save_data writes, in order.
NumFiles == 3

\* One rupee, in balance units: each of the up to MaxClock interest
\* applications of a run, at a rate in hundredths, divides exactly.
RECURSIVE Pow(_, _)
Pow(b, n) == IF n = 0 THEN 1 ELSE b * Pow(b, n - 1)
Unit == Pow(100, MaxClock)

\* ------------------------------------------------------------------ inputs

ID1 == <<"1", "2", "3", "4", "5", "6", "7", "8", "9">>
ID2 == <<"9", "8", "7", "6", "5", "4", "3", "2", "1">>
IDShort == <<"1", "2", "3", "4", "5", "6", "7", "8">>
IDAlpha == <<"1", "2", "3", "4", "5", "6", "7", "8", "a">>
\* Eight decimal digits and U+00B2, the superscript two (written "sup2").
IDSuper == <<"1", "2", "3", "4", "5", "6", "7", "8", "sup2">>
MalformedIds == {IDShort, IDAlpha}

\* A number no account ever has.
NoSuchAccount == "zz"

AccountTypes == {"savings", "current", "fixed"}
InitialBalances == {Unit}
Amounts == {-Unit, 0, Unit}
\* Interest rates in hundredths (a negative one, and 0.01 itself); overdraft
\* limits in balance units.
InterestRates == {-1, 1}
OverdraftLimits == {-Unit, Unit}

\* ------------------------------------------------------------------ dict

DictHas(d, k) == \E i \in 1..Len(d) : d[i].k = k
DictGet(d, k) == d[CHOOSE i \in 1..Len(d) : d[i].k = k].v
DictSet(d, k, v) ==
    IF DictHas(d, k)
    THEN [i \in 1..Len(d) |-> IF d[i].k = k THEN [k |-> k, v |-> v] ELSE d[i]]
    ELSE Append(d, [k |-> k, v |-> v])
DictDel(d, k) == SelectSeq(d, LAMBDA e : e.k # k)

SeqHas(s, x) == \E i \in 1..Len(s) : s[i] = x

\* list.remove(x): removes the first occurrence.
ListRemove(s, x) ==
    IF ~SeqHas(s, x) THEN s
    ELSE LET i == CHOOSE j \in 1..Len(s) :
                      s[j] = x /\ \A m \in 1..(j - 1) : s[m] # x
         IN  SubSeq(s, 1, i - 1) \o SubSeq(s, i + 1, Len(s))

\* ------------------------------------------------------------------ Account

DefaultInterestRate == 1
DefaultOverdraftLimit == 0

SavingsAccount(number, holder, initial_balance, interest_rate) ==
    [class |-> "SavingsAccount", account_number |-> number,
     account_holder_id |-> holder, balance |-> initial_balance,
     interest_rate |-> IF interest_rate >= 0 THEN interest_rate
                       ELSE DefaultInterestRate]

\* A constructor that keeps the overdraft limit it is given.
CurrentAccount_NoClamp(number, holder, initial_balance, overdraft_limit) ==
    [class |-> "CurrentAccount", account_number |-> number,
     account_holder_id |-> holder, balance |-> initial_balance,
     overdraft_limit |-> overdraft_limit]

CurrentAccount(number, holder, initial_balance, overdraft_limit) ==
    [class |-> "CurrentAccount", account_number |-> number,
     account_holder_id |-> holder, balance |-> initial_balance,
     overdraft_limit |-> IF overdraft_limit >= 0 THEN overdraft_limit
                         ELSE DefaultOverdraftLimit]

IsSavings(acc) == acc.class = "SavingsAccount"

\* A deposit that refuses to take the balance above one unit.
Account_deposit_Capped(acc, amount) ==
    IF amount <= 0 \/ acc.balance + amount > Unit
    THEN [ok |-> FALSE, acc |-> acc]
    ELSE [ok |-> TRUE, acc |-> [acc EXCEPT !.balance = @ + amount]]

\* A deposit that credits before it validates.
Account_deposit_Early(acc, amount) ==
    [ok |-> amount > 0, acc |-> [acc EXCEPT !.balance = @ + amount]]

\* deposit of either class: the result and the account afterwards.
Account_deposit(acc, amount) ==
    IF amount <= 0
    THEN [ok |-> FALSE, acc |-> acc]
    ELSE [ok |-> TRUE, acc |-> [acc EXCEPT !.balance = @ + amount]]

\* A savings withdrawal that refuses to empty the account.
SavingsAccount_withdraw_KeepsSome(acc, amount) ==
    IF amount <= 0 \/ amount >= acc.balance
    THEN [ok |-> FALSE, acc |-> acc]
    ELSE [ok |-> TRUE, acc |-> [acc EXCEPT !.balance = @ - amount]]

\* A savings withdrawal that does not compare the amount with the balance.
SavingsAccount_withdraw_NoFundsCheck(acc, amount) ==
    IF amount <= 0
    THEN [ok |-> FALSE, acc |-> acc]
    ELSE [ok |-> TRUE, acc |-> [acc EXCEPT !.balance = @ - amount]]

SavingsAccount_withdraw(acc, amount) ==
    IF amount <= 0 \/ amount > acc.balance
    THEN [ok |-> FALSE, acc |-> acc]
    ELSE [ok |-> TRUE, acc |-> [acc EXCEPT !.balance = @ - amount]]

\* A current withdrawal that debits before it validates.
CurrentAccount_withdraw_Early(acc, amount) ==
    [ok |-> ~(amount <= 0
              \/ (acc.balance - amount) < (-1) * acc.overdraft_limit),
     acc |-> [acc EXCEPT !.balance = @ - amount]]

CurrentAccount_withdraw(acc, amount) ==
    IF amount <= 0 \/ (acc.balance - amount) < (-1) * acc.overdraft_limit
    THEN [ok |-> FALSE, acc |-> acc]
    ELSE [ok |-> TRUE, acc |-> [acc EXCEPT !.balance = @ - amount]]

\* A withdrawal of either class that only looks at the amount.
Account_withdraw_AnyBalance(acc, amount) ==
    IF amount <= 0
    THEN [ok |-> FALSE, acc |-> acc]
    ELSE [ok |-> TRUE, acc |-> [acc EXCEPT !.balance = @ - amount]]

Account_withdraw(acc, amount) ==
    IF IsSavings(acc) THEN SavingsAccount_withdraw(acc, amount)
    ELSE CurrentAccount_withdraw(acc, amount)

\* Interest added a second time, on the balance the first has left.
apply_interest_Twice(acc) ==
    LET once == acc.balance + (acc.balance \div 100) * acc.interest_rate
    IN  [acc EXCEPT !.balance = once + (once \div 100) * acc.interest_rate]

\* interest = balance * rate, the rate being interest_rate / 100.
apply_interest(acc) ==
    [acc EXCEPT !.balance = @ + (@ \div 100) * acc.interest_rate]

Account_to_dict(acc) ==
    IF IsSavings(acc)
    THEN [account_number |-> acc.account_number, balance |-> acc.balance,
          account_holder_id |-> acc.account_holder_id, type |-> "savings",
          interest_rate |-> acc.interest_rate]
    ELSE [account_number |-> acc.account_number, balance |-> acc.balance,
          account_holder_id |-> acc.account_holder_id, type |-> "current",
          overdraft_limit |-> acc.overdraft_limit]

\* ------------------------------------------------------------------ Customer

Customer(id, name, address) ==
    [customer_id |-> id, name |-> name, address |-> address,
     account_numbers |-> <<>>]

\* An add that does not look for the number in the list.
add_account_number_NoCheck(c, number) ==
    [c EXCEPT !.account_numbers = Append(@, number)]

add_account_number(c, number) ==
    IF SeqHas(c.account_numbers, number) THEN c
    ELSE [c EXCEPT !.account_numbers = Append(@, number)]

remove_account_number(c, number) ==
    IF SeqHas(c.account_numbers, number)
    THEN [c EXCEPT !.account_numbers = ListRemove(@, number)]
    ELSE c

Customer_to_dict(c) ==
    [customer_id |-> c.customer_id, name |-> c.name, address |-> c.address,
     account_numbers |-> c.account_numbers]

\* str.isdigit() on the characters the inputs use, and the check of
\* Bank.add_customer.  isdigit() takes the decimal digits and the characters
\* Unicode gives the numeric type Digit, such as the superscript two.
DecimalDigits == {"0", "1", "2", "3", "4", "5", "6", "7", "8", "9"}
IsDigitChar(ch) == ch \in DecimalDigits \cup {"sup2"}
isdigit(s) == Len(s) > 0 /\ \A i \in 1..Len(s) : IsDigitChar(s[i])
ValidCustomerId(id) == ~(Len(id) # 9 \/ ~isdigit(id))

\* ------------------------------------------------------------------ files

NoFile == <<>>
FileOf(content) == <<content>>
Content(file) == file[1]

customers_data(c) == [i \in 1..Len(c) |-> Customer_to_dict(c[i].v)]
accounts_data(a) == [i \in 1..Len(a) |-> Account_to_dict(a[i].v)]

\* _save_data with the first w of its three writes done: w = NumFiles is the
\* save that returns, a smaller w the save whose next open() raised.
SavedCustomerFile(c, w) ==
    IF w >= 1 THEN FileOf(customers_data(c)) ELSE customer_file
SavedAccountFile(a, w) ==
    IF w >= 2 THEN FileOf(accounts_data(a)) ELSE account_file
\* A save that never writes transactions.json.
SavedTransactionsFile_Skipped(h, w) == transactions_file

SavedTransactionsFile(h, w) ==
    IF w >= 3 THEN FileOf(h) ELSE transactions_file

RECURSIVE AddAll(_, _)
AddAll(c, numbers) ==
    IF numbers = <<>> THEN c
    ELSE AddAll(add_account_number(c, Head(numbers)), Tail(numbers))

RECURSIVE LoadCustomers(_, _)
LoadCustomers(data, d) ==
    IF data = <<>> THEN d
    ELSE LET cdata == Head(data)
             c == AddAll(Customer(cdata.customer_id, cdata.name, cdata.address),
                         cdata.account_numbers)
         IN  LoadCustomers(Tail(data), DictSet(d, c.customer_id, c))

RECURSIVE LoadAccounts(_, _)
LoadAccounts(data, d) ==
    IF data = <<>> THEN d
    ELSE LET adata == Head(data)
         IN  IF adata.type = "savings"
             THEN LoadAccounts(Tail(data),
                      DictSet(d, adata.account_number,
                          SavingsAccount(adata.account_number,
                              adata.account_holder_id, adata.balance,
                              adata.interest_rate)))
             ELSE IF adata.type = "current"
             THEN LoadAccounts(Tail(data),
                      DictSet(d, adata.account_number,
                          CurrentAccount(adata.account_number,
                              adata.account_holder_id, adata.balance,
                              adata.overdraft_limit)))
             ELSE LoadAccounts(Tail(data), d)

\* The last loop of _load_data: account numbers that name no account go.
Prune(c, a) ==
    [i \in 1..Len(c) |->
        [k |-> c[i].k,
         v |-> [c[i].v EXCEPT !.account_numbers =
                   SelectSeq(@, LAMBDA n : DictHas(a, n))]]]

LoadedAccounts(af) ==
    IF af = NoFile THEN <<>> ELSE LoadAccounts(Content(af), <<>>)
LoadedCustomers(cf, af) ==
    Prune(IF cf = NoFile THEN <<>> ELSE LoadCustomers(Content(cf), <<>>),
          LoadedAccounts(af))
\* Bank.__init__: _load_data(), then the history starts empty.
LoadedHistory(tf) == <<>>

\* ------------------------------------------------------------------ Bank

Op(name, cust, a, b, amount, param) ==
    [op |-> name, result |-> "ok", why |-> "-", cust |-> cust, a |-> a,
     b |-> b, amount |-> amount, param |-> param]

\* No call is running in a thread of its own.
NoThreads == <<>>

\* A handler has returned and the event loop waits for the next event.
Idle == [Op("idle", <<>>, "-", "-", 0, 0) EXCEPT !.result = "-"]

\* The call returns failure and saves nothing; a is the account map as the
\* account methods it called have left it.  last keeps the operation and
\* the check that rejected it.
Fail(op, why, a) ==
    /\ last' = [Op(op.op, <<>>, "-", "-", 0, 0) EXCEPT !.result = "fail",
                                                      !.why = why]
    /\ accounts' = a
    /\ UNCHANGED <<customers, history, customer_file, account_file,
                   transactions_file, clock, effects, failures, threads>>

\* The call returns failure before it has called anything that changes state.
Reject(op, why) == Fail(op, why, accounts)

\* The call has changed the maps to c, a, h and ends in _save_data, which
\* does w of its writes: it returns, or the exception of the failed write
\* leaves the call.  e is what the call's result, once reported, adds up to.
Commit(op, c, a, h, e, w) ==
    /\ customers' = c
    /\ accounts' = a
    /\ history' = h
    /\ customer_file' = SavedCustomerFile(c, w)
    /\ account_file' = SavedAccountFile(a, w)
    /\ transactions_file' = SavedTransactionsFile(h, w)
    /\ clock' = clock + (Len(h) - Len(history))
    /\ last' = [op EXCEPT !.result = IF w = NumFiles THEN "ok" ELSE "raise"]
    /\ effects' = IF w = NumFiles THEN e ELSE effects
    /\ w < NumFiles => failures < MaxFailures
    /\ failures' = IF w < NumFiles THEN failures + 1 ELSE failures
    /\ threads' = threads

Without(f, n) == [m \in DOMAIN f \ {n} |-> f[m]]
With(f, n, v) == [m \in DOMAIN f \cup {n} |-> IF m = n THEN v ELSE f[m]]
Plus(f, n, v) == IF n \in DOMAIN f THEN [f EXCEPT ![n] = @ + v] ELSE f

add_customer(id, name, address, w) ==
    LET op == Op("add_customer", id, "-", "-", 0, 0)
    IN  IF DictHas(customers, id) THEN Reject(op, "duplicate id")
        ELSE IF ~ValidCustomerId(id) THEN Reject(op, "malformed id")
        ELSE Commit(op, DictSet(customers, id, Customer(id, name, address)),
                    accounts, history, effects, w)

\* A removal that does not look at the customer's account numbers.
remove_customer_NoOwnerCheck(id, w) ==
    LET op == Op("remove_customer", id, "-", "-", 0, 0)
    IN  IF ~DictHas(customers, id) THEN Reject(op, "no customer")
        ELSE Commit(op, DictDel(customers, id), accounts, history, effects, w)
remove_customer(id, w) ==
    LET op == Op("remove_customer", id, "-", "-", 0, 0)
    IN  IF ~DictHas(customers, id) THEN Reject(op, "no customer")
        ELSE IF DictGet(customers, id).account_numbers # <<>>
        THEN Reject(op, "owns accounts")
        ELSE Commit(op, DictDel(customers, id), accounts, history, effects, w)

\* number is what str(uuid.uuid4())[:8] gives this call.
create_account(id, type, initial_balance, param, number, w) ==
    LET op == Op("create_account", id, number, type, initial_balance, param)
    IN  IF ~DictHas(customers, id) THEN Reject(op, "no customer")
        ELSE IF type \notin {"savings", "current"} THEN Reject(op, "kind")
        ELSE LET account ==
                     IF type = "savings"
                     THEN SavingsAccount(number, id, initial_balance, param)
                     ELSE CurrentAccount(number, id, initial_balance, param)
                 customer == add_account_number(DictGet(customers, id), number)
             IN  Commit(op, DictSet(customers, id, customer),
                        DictSet(accounts, number, account), history,
                        With(effects, number, initial_balance), w)

\* AccountManagementView.delete_account
delete_account(number, w) ==
    LET op == Op("delete_account", <<>>, number, "-", 0, 0)
    IN  IF ~DictHas(accounts, number) THEN Reject(op, "no account")
        ELSE LET holder == DictGet(accounts, number).account_holder_id
                 c == IF DictHas(customers, holder)
                      THEN DictSet(customers, holder,
                               remove_account_number(
                                   DictGet(customers, holder), number))
                      ELSE customers
             IN  Commit(op, c, DictDel(accounts, number), history,
                        Without(effects, number), w)

\* A deposit that saves without a record of it.
deposit_NoRecord(number, amount, w) ==
    LET op == Op("deposit", <<>>, number, "-", amount, 0)
    IN  IF ~DictHas(accounts, number) THEN Reject(op, "no account")
        ELSE LET r == Account_deposit(DictGet(accounts, number), amount)
             IN  IF r.ok
                 THEN /\ clock < MaxClock
                      /\ Commit(op, customers, DictSet(accounts, number, r.acc),
                             history, Plus(effects, number, amount), w)
                 ELSE Fail(op, "account", DictSet(accounts, number, r.acc))

deposit(number, amount, w) ==
    LET op == Op("deposit", <<>>, number, "-", amount, 0)
    IN  IF ~DictHas(accounts, number) THEN Reject(op, "no account")
        ELSE LET r == Account_deposit(DictGet(accounts, number), amount)
             IN  IF r.ok
                 THEN /\ clock < MaxClock
                      /\ Commit(op, customers, DictSet(accounts, number, r.acc),
                             Append(history,
                                 [type |-> "deposit", account |-> number,
                                  amount |-> amount, timestamp |-> clock]),
                             Plus(effects, number, amount), w)
                 ELSE Fail(op, "account", DictSet(accounts, number, r.acc))

\* A withdrawal that takes the amount from every account that can give it.
withdraw_FromAll(number, amount, w) ==
    LET op == Op("withdraw", <<>>, number, "-", amount, 0)
    IN  IF ~DictHas(accounts, number) THEN Reject(op, "no account")
        ELSE LET r == Account_withdraw(DictGet(accounts, number), amount)
             IN  IF r.ok
                 THEN /\ clock < MaxClock
                      /\ Commit(op, customers,
                             [i \in 1..Len(accounts) |->
                                 [k |-> accounts[i].k,
                                  v |-> Account_withdraw(accounts[i].v,
                                                         amount).acc]],
                             Append(history,
                                 [type |-> "withdraw", account |-> number,
                                  amount |-> amount, timestamp |-> clock]),
                             Plus(effects, number, -amount), w)
                 ELSE Fail(op, "account", DictSet(accounts, number, r.acc))

withdraw(number, amount, w) ==
    LET op == Op("withdraw", <<>>, number, "-", amount, 0)
    IN  IF ~DictHas(accounts, number) THEN Reject(op, "no account")
        ELSE LET r == Account_withdraw(DictGet(accounts, number), amount)
             IN  IF r.ok
                 THEN /\ clock < MaxClock
                      /\ Commit(op, customers, DictSet(accounts, number, r.acc),
                             Append(history,
                                 [type |-> "withdraw", account |-> number,
                                  amount |-> amount, timestamp |-> clock]),
                             Plus(effects, number, -amount), w)
                 ELSE Fail(op, "account", DictSet(accounts, number, r.acc))

\* A transfer that charges the source one unit more than it credits.
transfer_funds_Fee(from, to, amount, w) ==
    LET op == Op("transfer_funds", <<>>, from, to, amount, 0)
    IN  IF ~DictHas(accounts, from) \/ ~DictHas(accounts, to)
        THEN Reject(op, "no account")
        ELSE IF amount <= 0 THEN Reject(op, "amount")
        ELSE LET wd == Account_withdraw(DictGet(accounts, from), amount)
                 a1 == DictSet(accounts, from, wd.acc)
                 dp == Account_deposit(DictGet(a1, to), amount - 1)
                 a2 == DictSet(a1, to, dp.acc)
             IN  IF ~wd.ok THEN Fail(op, "withdraw", a1)
                 ELSE /\ clock < MaxClock
                      /\ Commit(op, customers, a2,
                             Append(history,
                                 [type |-> "transfer", from_account |-> from,
                                  to_account |-> to, amount |-> amount,
                                  timestamp |-> clock]),
                             Plus(Plus(effects, from, -amount), to, amount), w)

\* from_account and to_account are one object when the two numbers are equal:
\* the deposit then acts on the account the withdrawal has just changed.
transfer_funds(from, to, amount, w) ==
    LET op == Op("transfer_funds", <<>>, from, to, amount, 0)
    IN  IF ~DictHas(accounts, from) \/ ~DictHas(accounts, to)
        THEN Reject(op, "no account")
        ELSE IF amount <= 0 THEN Reject(op, "amount")
        ELSE LET wd == Account_withdraw(DictGet(accounts, from), amount)
                 a1 == DictSet(accounts, from, wd.acc)
                 dp == Account_deposit(DictGet(a1, to), amount)
                 a2 == DictSet(a1, to, dp.acc)
                 back == Account_deposit(DictGet(a2, from), amount)
             IN  IF ~wd.ok THEN Fail(op, "withdraw", a1)
                 ELSE IF ~dp.ok
                 THEN Fail(op, "deposit", DictSet(a2, from, back.acc))
                 ELSE /\ clock < MaxClock
                      /\ Commit(op, customers, a2,
                             Append(history,
                                 [type |-> "transfer", from_account |-> from,
                                  to_account |-> to, amount |-> amount,
                                  timestamp |-> clock]),
                             Plus(Plus(effects, from, -amount), to, amount), w)

apply_all_interest(w) ==
    /\ clock < MaxClock
    /\ Commit(Op("apply_all_interest", <<>>, "-", "-", 0, 0), customers,
           [i \in 1..Len(accounts) |->
               IF IsSavings(accounts[i].v)
               THEN [k |-> accounts[i].k, v |-> apply_interest(accounts[i].v)]
               ELSE accounts[i]],
           Append(history, [type |-> "apply_interest", timestamp |-> clock]),
           [n \in DOMAIN effects |->
               IF DictHas(accounts, n) /\ IsSavings(DictGet(accounts, n))
               THEN effects[n]
                    + (effects[n] \div 100) * DictGet(accounts, n).interest_rate
               ELSE effects[n]], w)

\* The list get_customer_accounts returns is new, its elements are the
\* account objects of the account map themselves: each is named here by its
\* number, the key under which the map holds that object.
get_customer_accounts(id) ==
    IF ~DictHas(customers, id) THEN <<>>
    ELSE SelectSeq(DictGet(customers, id).account_numbers,
                   LAMBDA n : DictHas(accounts, n))

\* A caller calls withdraw(amount) on the i-th account that
\* get_customer_accounts(id) has returned: the method acts on the object in
\* the account map, and nothing is recorded or saved.
caller_withdraw(id, i, amount) ==
    LET returned == get_customer_accounts(id)
    IN  /\ i \in 1..Len(returned)
        /\ accounts' = DictSet(accounts, returned[i],
               Account_withdraw(DictGet(accounts, returned[i]), amount).acc)
        /\ last' = Op("caller", id, returned[i], "-", amount, 0)
        /\ UNCHANGED <<customers, history, customer_file, account_file,
                       transactions_file, clock, effects, failures, threads>>

\* get_transaction_history returns self._transaction_history, the list
\* itself: a caller's clear() on it empties the bank's history.
caller_clear_history ==
    /\ history' = <<>>
    /\ last' = Op("caller", <<>>, "-", "-", 0, 0)
    /\ UNCHANGED <<customers, accounts, customer_file, account_file,
                   transactions_file, clock, effects, failures, threads>>

\* The process ends and main() builds a new Bank from the files.
Restart ==
    /\ customers' = LoadedCustomers(customer_file, account_file)
    /\ accounts' = LoadedAccounts(account_file)
    /\ history' = LoadedHistory(transactions_file)
    /\ last' = Op("restart", <<>>, "-", "-", 0, 0)
    /\ UNCHANGED <<customer_file, account_file, transactions_file, clock,
                   effects, failures, threads>>

\* The view that made the call has shown its result: back to the event loop.
MainLoop ==
    /\ last # Idle
    /\ last' = Idle
    /\ UNCHANGED <<customers, accounts, history, customer_file, account_file,
                   transactions_file, clock, effects, failures, threads>>

\* ------------------------------------------------------------------ threads

\* Two threads call Bank.deposit on the account number at the same time:
\* nothing in Bank or Account takes a lock.  base is the account as it is
\* when the calls are made.
Thread(number, amount, base) ==
    [pc |-> "load", number |-> number, amount |-> amount, tmp |-> 0,
     base |-> base]

fork(number, amount1, amount2) ==
    /\ threads = NoThreads
    /\ DictHas(accounts, number)
    /\ clock + 2 <= MaxClock
    /\ threads' = <<Thread(number, amount1, DictGet(accounts, number)),
                    Thread(number, amount2, DictGet(accounts, number))>>
    /\ last' = Op("threads", <<>>, number, "-", 0, 0)
    /\ UNCHANGED <<customers, accounts, history, customer_file, account_file,
                   transactions_file, clock, effects, failures>>

\* Account.deposit, `self._balance += amount`, first half: the amount is
\* checked and the balance read.
thread_load(t) ==
    LET th == threads[t]
    IN  /\ th.pc = "load"
        /\ threads' = [threads EXCEPT ![t] =
               IF th.amount <= 0 THEN [th EXCEPT !.pc = "done"]
               ELSE [th EXCEPT !.pc = "store",
                               !.tmp = DictGet(accounts, th.number).balance]]
        /\ UNCHANGED <<customers, accounts, history, customer_file,
                       account_file, transactions_file, clock, last, effects,
                       failures>>

\* Second half: the sum is stored as the balance.
thread_store(t) ==
    LET th == threads[t]
    IN  /\ th.pc = "store"
        /\ accounts' = DictSet(accounts, th.number,
               [DictGet(accounts, th.number) EXCEPT
                   !.balance = th.tmp + th.amount])
        /\ threads' = [threads EXCEPT ![t].pc = "log"]
        /\ UNCHANGED <<customers, history, customer_file, account_file,
                       transactions_file, clock, last, effects, failures>>

\* Bank.deposit after account.deposit has returned True: the record and
\* _save_data.
thread_log(t) ==
    LET th == threads[t]
        h == Append(history,
                 [type |-> "deposit", account |-> th.number,
                  amount |-> th.amount, timestamp |-> clock])
    IN  /\ th.pc = "log"
        /\ history' = h
        /\ customer_file' = SavedCustomerFile(customers, NumFiles)
        /\ account_file' = SavedAccountFile(accounts, NumFiles)
        /\ transactions_file' = SavedTransactionsFile(h, NumFiles)
        /\ clock' = clock + 1
        /\ effects' = Plus(effects, th.number, th.amount)
        /\ threads' = [threads EXCEPT ![t].pc = "done"]
        /\ UNCHANGED <<customers, accounts, last, failures>>

ThreadsDone ==
    threads # NoThreads /\ \A t \in 1..Len(threads) : threads[t].pc = "done"

\* Both calls have returned.
join ==
    /\ ThreadsDone
    /\ threads' = NoThreads
    /\ last' = Op("join", <<>>, threads[1].number, "-", 0, 0)
    /\ UNCHANGED <<customers, accounts, history, customer_file, account_file,
                   transactions_file, clock, effects, failures>>

\* ------------------------------------------------------------------ specification

\* The first run: no file exists, and Bank() has loaded nothing.
Init ==
    /\ customer_file = NoFile
    /\ account_file = NoFile
    /\ transactions_file = NoFile
    /\ customers = LoadedCustomers(NoFile, NoFile)
    /\ accounts = LoadedAccounts(NoFile)
    /\ history = LoadedHistory(NoFile)
    /\ clock = 0
    /\ last = Op("restart", <<>>, "-", "-", 0, 0)
    /\ effects = <<>>
    /\ failures = 0
    /\ threads = NoThreads

\* The operations, with W the numbers of writes a save may do, C the customer
\* ids a caller may pass and N the account numbers uuid4 may give.
AddCustomer(W, C) ==
    \E id \in C \cup MalformedIds, w \in W : add_customer(id, "A", "X", w)
RemoveCustomer(W, C) ==
    \E id \in C \cup {IDShort}, w \in W : remove_customer(id, w)
CreateSavings(W, C, N) ==
    \E id \in C \cup {IDShort}, b \in InitialBalances, r \in InterestRates,
       n \in N, w \in W :
        create_account(id, "savings", b, r, n, w)
CreateCurrent(W, C, N) ==
    \E id \in C \cup {IDShort}, b \in InitialBalances, l \in OverdraftLimits,
       n \in N, w \in W :
        create_account(id, "current", b, l, n, w)
CreateOther(W, C, N) ==
    \E id \in C, t \in AccountTypes \ {"savings", "current"}, n \in N, w \in W :
        create_account(id, t, 0, 0, n, w)
DeleteAccount(W, N) ==
    \E n \in N \cup {NoSuchAccount}, w \in W : delete_account(n, w)
Deposit(W, N) ==
    \E n \in N \cup {NoSuchAccount}, amt \in Amounts, w \in W :
        deposit(n, amt, w)
Withdraw(W, N) ==
    \E n \in N \cup {NoSuchAccount}, amt \in Amounts, w \in W :
        withdraw(n, amt, w)
Transfer(W, N) ==
    \E f \in N \cup {NoSuchAccount}, t \in N \cup {NoSuchAccount},
       amt \in Amounts, w \in W :
        transfer_funds(f, t, amt, w)
ApplyInterestToAll(W) == \E w \in W : apply_all_interest(w)

\* One event at a time: a handler runs when the event loop is idle.
Ops(W, C, N) ==
    \/ last = Idle /\ AddCustomer(W, C)
    \/ last = Idle /\ RemoveCustomer(W, C)
    \/ last = Idle /\ CreateSavings(W, C, N)
    \/ last = Idle /\ CreateCurrent(W, C, N)
    \/ last = Idle /\ CreateOther(W, C, N)
    \/ last = Idle /\ DeleteAccount(W, N)
    \/ last = Idle /\ Deposit(W, N)
    \/ last = Idle /\ Withdraw(W, N)
    \/ last = Idle /\ Transfer(W, N)
    \/ last = Idle /\ ApplyInterestToAll(W)
    \/ last = Idle /\ Restart
    \/ MainLoop

\* One customer, two accounts, a store that never fails: every _save_data
\* does its three writes.
Next == Ops({NumFiles}, {ID1}, {"a1", "a2"})
Spec == Init /\ [][Next]_vars

\* Two customers and one account number: uuid4 gives a number again.
NextOwners == Ops({NumFiles}, {ID1, ID2}, {"a1"})
SpecOwners == Init /\ [][NextOwners]_vars

\* Two customer ids that pass isdigit(), one of them with a character that
\* is no decimal digit.
NextIds == Ops({NumFiles}, {ID1, IDSuper}, {"a1"})
SpecIds == Init /\ [][NextIds]_vars

\* One customer, one account, and a caller that acts on the values the
\* queries have returned to it.
CallerWithdraws(C) ==
    \E id \in C, i \in 1..2, amt \in Amounts : caller_withdraw(id, i, amt)
CallerClearsHistory == caller_clear_history
NextCaller ==
    \/ Ops({NumFiles}, {ID1}, {"a1"})
    \/ last = Idle /\ CallerWithdraws({ID1})
    \/ last = Idle /\ CallerClearsHistory
SpecCaller == Init /\ [][NextCaller]_vars

\* One customer, one account, and two threads that deposit into it at the
\* same time.
Fork(N) == \E n \in N, amt1 \in {Unit}, amt2 \in {Unit} : fork(n, amt1, amt2)
ThreadLoad == \E t \in 1..Len(threads) : thread_load(t)
ThreadStore == \E t \in 1..Len(threads) : thread_store(t)
ThreadLog == \E t \in 1..Len(threads) : thread_log(t)
Join == join
NextThreads ==
    \/ threads = NoThreads /\ Ops({NumFiles}, {ID1}, {"a1"})
    \/ last = Idle /\ Fork({"a1"})
    \/ ThreadLoad
    \/ ThreadStore
    \/ ThreadLog
    \/ Join
SpecThreads == Init /\ [][NextThreads]_vars

\* One Customer object, from its constructor on, and the calls of its two
\* methods with the account numbers of AccountNumbers.
AccountNumbers == {"a1", "a2", "a3", "a4"}
InitCustomer ==
    /\ customers = DictSet(<<>>, ID1, Customer(ID1, "A", "X"))
    /\ accounts = <<>>
    /\ history = <<>>
    /\ customer_file = NoFile
    /\ account_file = NoFile
    /\ transactions_file = NoFile
    /\ clock = 0
    /\ last = Idle
    /\ effects = <<>>
    /\ failures = 0
    /\ threads = NoThreads
AddAccountId ==
    \E n \in AccountNumbers :
        /\ customers' = DictSet(customers, ID1,
               add_account_number(DictGet(customers, ID1), n))
        /\ last' = Op("add_account_number", ID1, n, "-", 0, 0)
        /\ UNCHANGED <<accounts, history, customer_file, account_file,
                       transactions_file, clock, effects, failures, threads>>
RemoveAccountId ==
    \E n \in AccountNumbers :
        /\ customers' = DictSet(customers, ID1,
               remove_account_number(DictGet(customers, ID1), n))
        /\ last' = Op("remove_account_number", ID1, n, "-", 0, 0)
        /\ UNCHANGED <<accounts, history, customer_file, account_file,
                       transactions_file, clock, effects, failures, threads>>
NextCustomer == AddAccountId \/ RemoveAccountId
SpecCustomer == InitCustomer /\ [][NextCustomer]_vars

\* One Account object, as its constructor makes it from the balances and
\* parameters below, and the calls of its withdraw method.
Half == Unit \div 2
AccountBalances == {-Unit, 0, Half, Unit, Unit + Half, 2 * Unit}
AccountAmounts == {-Unit, 0, Half, Unit, Unit + Half, 2 * Unit}
InitAccount ==
    /\ customers = <<>>
    /\ accounts \in
           {DictSet(<<>>, "a1", SavingsAccount("a1", ID1, b, r)) :
                b \in AccountBalances, r \in InterestRates}
           \cup {DictSet(<<>>, "a1", CurrentAccount("a1", ID1, b, l)) :
                b \in AccountBalances, l \in OverdraftLimits}
    /\ history = <<>>
    /\ customer_file = NoFile
    /\ account_file = NoFile
    /\ transactions_file = NoFile
    /\ clock = 0
    /\ last = Idle
    /\ effects = <<>>
    /\ failures = 0
    /\ threads = NoThreads
AccountWithdraw ==
    \E amt \in AccountAmounts :
        LET r == Account_withdraw(DictGet(accounts, "a1"), amt)
        IN  /\ accounts' = DictSet(accounts, "a1", r.acc)
            /\ last' = [Op("Account.withdraw", <<>>, "a1", "-", amt, 0)
                           EXCEPT !.result = IF r.ok THEN "ok" ELSE "fail"]
            /\ UNCHANGED <<customers, history, customer_file, account_file,
                           transactions_file, clock, effects, failures,
                           threads>>
NextAccount == AccountWithdraw
SpecAccount == InitAccount /\ [][NextAccount]_vars

\* One customer and one account, which may also be created with a balance
\* of zero or below: on, or under, the floor of its class.
LowBalances == {-Unit, 0}
CreateLow(W, C, N) ==
    \/ \E id \in C, b \in LowBalances, r \in InterestRates, n \in N, w \in W :
           create_account(id, "savings", b, r, n, w)
    \/ \E id \in C, b \in LowBalances, l \in OverdraftLimits, n \in N, w \in W :
           create_account(id, "current", b, l, n, w)
NextLow ==
    \/ Ops({NumFiles}, {ID1}, {"a1"})
    \/ last = Idle /\ CreateLow({NumFiles}, {ID1}, {"a1"})
SpecLow == Init /\ [][NextLow]_vars

\* A store that may fail: a _save_data may stop before any of its writes.
NextIO == Ops(0..NumFiles, {ID1}, {"a1"})
SpecIO == Init /\ [][NextIO]_vars

\* ------------------------------------------------------------------ claims

Bal(a, n) == DictGet(a, n).balance
\* The least balance a withdrawal may leave.
Floor(acc) == IF IsSavings(acc) THEN 0 ELSE (-1) * acc.overdraft_limit
Rows(file) == IF file = NoFile THEN <<>> ELSE Content(file)
IsPrefix(s, t) == Len(s) <= Len(t) /\ SubSeq(t, 1, Len(s)) = s
MutatingOps ==
    {"add_customer", "remove_customer", "create_account", "delete_account",
     "deposit", "withdraw", "transfer_funds", "apply_all_interest"}
\* What a _save_data that returns leaves in the three files.
Saved(c, a, h) == <<FileOf(customers_data(c)), FileOf(accounts_data(a)), FileOf(h)>>
OneTransferRecord(h, h2, from, to, amount) ==
    /\ Len(h2) = Len(h) + 1
    /\ SubSeq(h2, 1, Len(h)) = h
    /\ h2[Len(h2)].type = "transfer"
    /\ h2[Len(h2)].from_account = from
    /\ h2[Len(h2)].to_account = to
    /\ h2[Len(h2)].amount = amount

\* C1: every transfer_funds(a, b, amt) call, a and b equal or not, either
\* reports success, takes amt from a's balance, adds amt to b's balance and
\* appends exactly one transfer record, or reports failure, changes no
\* balance and appends no record.
C1_TransferOutcome ==
    [][last'.op = "transfer_funds" =>
        \/ /\ last'.result = "ok"
           /\ Bal(accounts', last'.a) = Bal(accounts, last'.a) - last'.amount
           /\ Bal(accounts', last'.b) = Bal(accounts, last'.b) + last'.amount
           /\ OneTransferRecord(history, history', last'.a, last'.b,
                                last'.amount)
        \/ /\ last'.result = "fail"
           /\ accounts' = accounts
           /\ history' = history]_vars

\* C1, between two different accounts: the same two outcomes.
C1_TransferOutcomeDistinct ==
    [][(last'.op = "transfer_funds" /\ last'.a # last'.b) =>
        \/ /\ last'.result = "ok"
           /\ Bal(accounts', last'.a) = Bal(accounts, last'.a) - last'.amount
           /\ Bal(accounts', last'.b) = Bal(accounts, last'.b) + last'.amount
           /\ OneTransferRecord(history, history', last'.a, last'.b,
                                last'.amount)
        \/ /\ last'.result = "fail"
           /\ accounts' = accounts
           /\ history' = history]_vars

\* C2: a withdraw call, and the withdrawal of a transfer_funds call, never
\* takes a balance below the floor of its account (0 for a savings account,
\* -overdraft_limit for a current account): a balance these calls change is
\* at or above the floor afterwards.
C2_WithdrawFloor ==
    [][last'.op \in {"withdraw", "transfer_funds"} =>
        \A i \in 1..Len(accounts') :
            LET acc == accounts'[i].v
            IN  \/ acc.balance >= Floor(acc)
                \/ /\ DictHas(accounts, acc.account_number)
                   /\ Bal(accounts, acc.account_number) = acc.balance]_vars

\* C2's case: a withdrawal that a current account with an overdraft limit
\* accepted and that landed exactly on the floor.
C2_Witness ==
    /\ last.op = "withdraw"
    /\ last.result = "ok"
    /\ DictHas(accounts, last.a)
    /\ ~IsSavings(DictGet(accounts, last.a))
    /\ DictGet(accounts, last.a).overdraft_limit > 0
    /\ Bal(accounts, last.a) = Floor(DictGet(accounts, last.a))

\* C3: every account number in a customer's account_numbers is a key of
\* the account map, and the account it names has that customer as holder.
C3_ReferentialIntegrity ==
    \A i \in 1..Len(customers) :
        \A j \in 1..Len(customers[i].v.account_numbers) :
            LET n == customers[i].v.account_numbers[j]
            IN  /\ DictHas(accounts, n)
                /\ DictGet(accounts, n).account_holder_id
                       = customers[i].v.customer_id

\* C4: a restart from files that hold the committed state gives back that
\* state: customers, accounts and history as they were.
C4_RoundTrip ==
    [][(last'.op = "restart" /\ disk = Saved(customers, accounts, history)) =>
        /\ customers' = customers
        /\ accounts' = accounts
        /\ history' = history]_vars

\* C5: the persisted activity log only grows: what transactions.json held
\* before a step is a prefix of what it holds after.
C5_LogAppendOnly ==
    [][IsPrefix(Rows(transactions_file), Rows(transactions_file'))]_vars

\* C6: the balance of every account is its initial balance plus the effects,
\* in order, of the calls that reported success on it.
C6_BalanceIsSumOfEffects ==
    \A i \in 1..Len(accounts) :
        /\ accounts[i].k \in DOMAIN effects
        /\ accounts[i].v.balance = effects[accounts[i].k]

\* C6's case: an account whose balance two successful calls have changed,
\* just after a call on the ledger was rejected.
C6_Witness ==
    /\ last.result = "fail"
    /\ last.op \in {"deposit", "withdraw", "transfer_funds"}
    /\ clock = MaxClock
    /\ \E i \in 1..Len(accounts) :
           /\ IsSavings(accounts[i].v)
           /\ accounts[i].v.balance \notin {0, Unit, 2 * Unit}

\* C7: a call that reports failure leaves the customers, the accounts, the
\* history and the three files as they were.
C7_FailureChangesNothing ==
    [][last'.result = "fail" =>
        /\ customers' = customers
        /\ accounts' = accounts
        /\ history' = history
        /\ customer_file' = customer_file
        /\ account_file' = account_file
        /\ transactions_file' = transactions_file]_vars

\* C7's case: a transfer between two existing accounts rejected for want of
\* funds.
C7_Witness ==
    /\ last.op = "transfer_funds"
    /\ last.result = "fail"
    /\ last.why = "withdraw"
    /\ Len(accounts) = 2

\* C8: a call whose durable write fails leaves the customers, the accounts
\* and the history in memory as they were before the call.
C8_FailedWriteChangesNothing ==
    [][last'.result = "raise" =>
        /\ customers' = customers
        /\ accounts' = accounts
        /\ history' = history]_vars

\* C9: whatever a step leaves in the three files is one ledger state: the
\* collections they held before the step, or the ones in memory after it.
C9_CommitAtomic ==
    [][\/ <<Rows(customer_file'), Rows(account_file'), Rows(transactions_file')>>
            = <<Rows(customer_file), Rows(account_file), Rows(transactions_file)>>
       \/ <<Rows(customer_file'), Rows(account_file'), Rows(transactions_file')>>
            = <<customers_data(customers'), accounts_data(accounts'), history'>>
      ]_vars

\* C10: when a mutating call has reported success, the three files hold the
\* customers, the accounts and the history that are in memory.
C10_SuccessIsDurable ==
    (last.op \in MutatingOps /\ last.result = "ok") =>
        disk = Saved(customers, accounts, history)

\* C10's case: a deposit that succeeded after an earlier call's write had
\* failed.
C10_Witness ==
    /\ last.op = "deposit"
    /\ last.result = "ok"
    /\ failures = 1
    /\ history # <<>>

\* C11: a create_account call that reports success gives the new account a
\* number that is no key of the account map, so the map grows by exactly one
\* entry and every account it held is still there, unchanged.
C11_FreshAccountNumber ==
    [][(last'.op = "create_account" /\ last'.result = "ok") =>
        /\ ~DictHas(accounts, last'.a)
        /\ Len(accounts') = Len(accounts) + 1
        /\ \A i \in 1..Len(accounts) : accounts'[i] = accounts[i]]_vars

\* The customer ids a caller passes in some specification.
CallerIds == {ID1, ID2, IDSuper, IDShort, IDAlpha}

\* C12: remove_customer(id) reports failure when no customer has that id;
\* on a customer that exists it reports failure exactly when the customer's
\* account_numbers is not empty; when it reports success exactly that
\* customer is gone, the other customers and every account are as before.
C12_RemoveCustomer ==
    [][\A id \in CallerIds :
        remove_customer(id, NumFiles) =>
            /\ last'.result \in {"ok", "fail"}
            /\ ~DictHas(customers, id) => last'.result = "fail"
            /\ DictHas(customers, id) =>
                   (last'.result = "fail"
                        <=> DictGet(customers, id).account_numbers # <<>>)
            /\ last'.result = "ok" =>
                   /\ ~DictHas(customers', id)
                   /\ Len(customers') = Len(customers) - 1
                   /\ \A i \in 1..Len(customers) :
                          customers[i].k # id =>
                              /\ DictHas(customers', customers[i].k)
                              /\ DictGet(customers', customers[i].k)
                                     = customers[i].v
                   /\ accounts' = accounts]_vars

\* C12's case: a customer without accounts has been removed while the other
\* customer, who owns an account, stays.
C12_Witness ==
    /\ last.op = "remove_customer"
    /\ last.result = "ok"
    /\ Len(customers) = 1
    /\ customers[1].v.account_numbers # <<>>
    /\ Len(accounts) = 1

\* C13: a deposit or withdraw call reports success exactly when it has
\* appended one record of its own kind, with the account number and the
\* amount of the call, and _save_data has written the three files; a call
\* that reports failure appends no record and writes no file.
C13_RecordIffSuccess ==
    [][last'.op \in {"deposit", "withdraw"} =>
        LET appended ==
                /\ Len(history') = Len(history) + 1
                /\ SubSeq(history', 1, Len(history)) = history
                /\ history'[Len(history')].type = last'.op
                /\ history'[Len(history')].account = last'.a
                /\ history'[Len(history')].amount = last'.amount
            committed == disk' = Saved(customers', accounts', history')
        IN  /\ last'.result = "ok" <=> (appended /\ committed)
            /\ last'.result = "fail" =>
                   (history' = history /\ disk' = disk)]_vars

\* C13's case: a withdrawal that succeeded after a deposit, with both
\* records in the history.
C13_Witness ==
    /\ last.op = "withdraw"
    /\ last.result = "ok"
    /\ Len(history) = 2
    /\ history[1].type = "deposit"
    /\ history[2].type = "withdraw"
    /\ history[2].account = last.a

\* C14: apply_all_interest adds balance * interest_rate, once, to the
\* balance of every savings account and changes nothing else of it, leaves
\* every current account and every customer as they were, appends exactly
\* one apply_interest record and writes the three files, whether the bank
\* has savings accounts or not.  (interest_rate counts hundredths.)
C14_InterestOnce ==
    [][last'.op = "apply_all_interest" =>
        /\ last'.result = "ok"
        /\ Len(accounts') = Len(accounts)
        /\ \A i \in 1..Len(accounts) :
               /\ accounts'[i].k = accounts[i].k
               /\ IF IsSavings(accounts[i].v)
                  THEN /\ accounts'[i].v.balance * 100
                              = accounts[i].v.balance
                                    * (100 + accounts[i].v.interest_rate)
                       /\ accounts'[i].v
                              = [accounts[i].v EXCEPT
                                    !.balance = accounts'[i].v.balance]
                  ELSE accounts'[i].v = accounts[i].v
        /\ customers' = customers
        /\ Len(history') = Len(history) + 1
        /\ SubSeq(history', 1, Len(history)) = history
        /\ history'[Len(history')].type = "apply_interest"
        /\ disk' = Saved(customers', accounts', history')]_vars

\* C14's case: interest has been applied in a bank with a savings account
\* that had a balance and a current account.
C14_Witness ==
    /\ last.op = "apply_all_interest"
    /\ Len(accounts) = 2
    /\ \E i, j \in 1..Len(accounts) :
           /\ IsSavings(accounts[i].v)
           /\ accounts[i].v.balance > Unit
           /\ ~IsSavings(accounts[j].v)

NineDigits(id) == Len(id) = 9 /\ \A i \in 1..Len(id) : id[i] \in DecimalDigits

\* C15: add_customer reports failure when the id is not exactly nine decimal
\* digits or a customer has it already, and then leaves the customers as
\* they were; otherwise it reports success and adds a customer with that id
\* and no account number.
C15_AddCustomer ==
    [][\A id \in CallerIds :
        add_customer(id, "A", "X", NumFiles) =>
            IF ~NineDigits(id) \/ DictHas(customers, id)
            THEN last'.result = "fail" /\ customers' = customers
            ELSE /\ last'.result = "ok"
                 /\ customers' = Append(customers,
                        [k |-> id,
                         v |-> [customer_id |-> id, name |-> "A",
                                address |-> "X", account_numbers |-> <<>>]])
      ]_vars

\* C16: delete_account on a number the account map does not hold reports
\* failure and changes nothing; otherwise it takes the account out of the map
\* and its number out of its holder's account_numbers, after which no
\* customer's account_numbers holds the number; every other account and
\* every other customer is as before.
C16_DeleteAccount ==
    [][\A n \in {"a1", "a2", NoSuchAccount} :
        delete_account(n, NumFiles) =>
            IF ~DictHas(accounts, n)
            THEN last'.result = "fail" /\ mem' = mem /\ disk' = disk
            ELSE /\ last'.result = "ok"
                 /\ accounts' = DictDel(accounts, n)
                 /\ \A i \in 1..Len(customers') :
                        ~SeqHas(customers'[i].v.account_numbers, n)
                 /\ Len(customers') = Len(customers)
                 /\ \A i \in 1..Len(customers) :
                        \/ customers'[i] = customers[i]
                        \/ customers[i].k
                               = DictGet(accounts, n).account_holder_id]_vars

\* C17: create_account for an existing customer reports success whatever
\* the sign of the interest rate or overdraft limit it is given, and the
\* account it stores has the given parameter when that is not negative and
\* the default (0.01, or 0) when it is; so after every step every savings
\* account has interest_rate >= 0 and every current account has
\* overdraft_limit >= 0.
C17_ParameterClamped ==
    [][/\ (last'.op = "create_account" /\ last'.result = "ok") =>
              LET acc == DictGet(accounts', last'.a)
              IN  IF last'.b = "savings"
                  THEN /\ IsSavings(acc)
                       /\ acc.interest_rate
                              = IF last'.param < 0 THEN DefaultInterestRate
                                ELSE last'.param
                  ELSE /\ ~IsSavings(acc)
                       /\ acc.overdraft_limit
                              = IF last'.param < 0 THEN DefaultOverdraftLimit
                                ELSE last'.param
       /\ (last'.op = "create_account" /\ last'.result # "ok") =>
              \A id \in CallerIds, b \in InitialBalances, n \in {"a1", "a2"} :
                  DictHas(customers, id) =>
                      /\ \A r \in InterestRates :
                             ~create_account(id, "savings", b, r, n, NumFiles)
                      /\ \A l \in OverdraftLimits :
                             ~create_account(id, "current", b, l, n, NumFiles)
       /\ \A i \in 1..Len(accounts') :
              IF IsSavings(accounts'[i].v)
              THEN accounts'[i].v.interest_rate >= 0
              ELSE accounts'[i].v.overdraft_limit >= 0]_vars

\* C17's case: a current account created with a negative overdraft limit,
\* which has the default limit.
C17_Witness ==
    /\ last.op = "create_account"
    /\ last.result = "ok"
    /\ last.b = "current"
    /\ last.param < 0
    /\ DictGet(accounts, last.a).overdraft_limit = DefaultOverdraftLimit

\* C18: what the bank hands to a caller (the accounts of
\* get_customer_accounts, the list of get_transaction_history) is a copy:
\* nothing the caller does to it changes the customers, the accounts or the
\* history of the bank.
C18_ReturnedValuesAreCopies ==
    [][last'.op = "caller" => mem' = mem]_vars

\* C19: when two threads have run deposit on one account at the same time,
\* the account is what one call after the other, in either order, makes of
\* it, and the history has the record of each.
C19_Serialized ==
    ThreadsDone =>
        LET n == threads[1].number
            base == threads[1].base
            one == Account_deposit(base, threads[1].amount).acc
            two == Account_deposit(base, threads[2].amount).acc
        IN  /\ \/ DictGet(accounts, n)
                      = Account_deposit(one, threads[2].amount).acc
               \/ DictGet(accounts, n)
                      = Account_deposit(two, threads[1].amount).acc
            /\ Len(history) = 2

\* A list without the number n.
Others(s, n) == SelectSeq(s, LAMBDA x : x # n)

\* C20: for every customer and every account number n, a second
\* add_account_number(n) changes nothing the first has left, and the same
\* for remove_account_number(n); adding a number the list holds and removing
\* one it does not hold change nothing; and the other numbers keep their
\* order.
C20_Idempotent ==
    \A i \in 1..Len(customers), n \in AccountNumbers :
        LET c == customers[i].v
            added == add_account_number(c, n)
            removed == remove_account_number(c, n)
        IN  /\ add_account_number(added, n) = added
            /\ remove_account_number(removed, n) = removed
            /\ SeqHas(c.account_numbers, n) => added = c
            /\ ~SeqHas(c.account_numbers, n) => removed = c
            /\ SeqHas(added.account_numbers, n)
            /\ ~SeqHas(removed.account_numbers, n)
            /\ Others(added.account_numbers, n) = Others(c.account_numbers, n)
            /\ removed.account_numbers = Others(c.account_numbers, n)

\* C20's case: a number has been removed from between two others, which
\* remain.
C20_Witness ==
    /\ last.op = "remove_account_number"
    /\ DictGet(customers, last.cust).account_numbers = <<"a3", "a1">>

\* C21: an account's withdraw(amount) returns True exactly when amount > 0
\* and the balance less the amount is at or above the account's floor (0 for
\* a savings account, -overdraft_limit for a current account); it then takes
\* exactly the amount from the balance, and in every other case it leaves
\* the account as it was.
C21_WithdrawExactly ==
    [][last'.op = "Account.withdraw" =>
        LET acc == DictGet(accounts, last'.a)
            after == DictGet(accounts', last'.a)
            amt == last'.amount
        IN  /\ last'.result = "ok"
                   <=> (amt > 0 /\ acc.balance - amt >= Floor(acc))
            /\ last'.result = "ok" =>
                   after = [acc EXCEPT !.balance = acc.balance - amt]
            /\ last'.result # "ok" => after = acc]_vars

\* C21's case: a savings account that a withdrawal has emptied, the amount
\* being its whole balance.
C21_Witness ==
    /\ last.op = "Account.withdraw"
    /\ last.result = "ok"
    /\ IsSavings(DictGet(accounts, last.a))
    /\ DictGet(accounts, last.a).balance = 0
    /\ last.amount = Half

\* The accounts whose balance a step changes.
Changed == {i \in 1..Len(accounts) :
               accounts'[i].v.balance # accounts[i].v.balance}

\* C22: a deposit or withdraw call on an account, whether it reports success
\* or failure, changes the balance of no other account, leaves the holder,
\* the class and the interest rate or overdraft limit of every account, the
\* keys of the account map and every customer as they were.
C22_DepositWithdrawFrame ==
    [][last'.op \in {"deposit", "withdraw"} =>
        /\ customers' = customers
        /\ Len(accounts') = Len(accounts)
        /\ \A i \in 1..Len(accounts) :
               /\ accounts'[i].k = accounts[i].k
               /\ [accounts'[i].v EXCEPT !.balance = 0]
                      = [accounts[i].v EXCEPT !.balance = 0]
        /\ IF last'.result = "ok"
           THEN \A i \in Changed : accounts[i].k = last'.a
           ELSE Cardinality(Changed) <= 1]_vars

\* C22's case: a withdrawal that succeeded on one of two accounts, the other
\* being of the other class.
C22_Witness ==
    /\ last.op = "withdraw"
    /\ last.result = "ok"
    /\ Len(accounts) = 2
    /\ IsSavings(accounts[1].v) # IsSavings(accounts[2].v)

\* C23: no transfer_funds call ends in the branch that gives the amount back
\* to the source account: once the withdrawal has succeeded the deposit into
\* the destination succeeds.
C23_NoCompensation ==
    ~(last.op = "transfer_funds" /\ last.why = "deposit")

\* C23's case: a transfer whose withdrawal succeeded, into a current account
\* other than the source.
C23_Witness ==
    /\ last.op = "transfer_funds"
    /\ last.result = "ok"
    /\ last.a # last.b
    /\ ~IsSavings(DictGet(accounts, last.b))

RECURSIVE SumOfBalances(_)
SumOfBalances(a) ==
    IF a = <<>> THEN 0 ELSE Head(a).v.balance + SumOfBalances(Tail(a))

\* C24: a transfer_funds call, whether it reports success or failure and
\* whether its two accounts are one or two, leaves the sum of the balances
\* of all accounts as it was, and changes the balance of no account other
\* than its two.
C24_TransferConserves ==
    [][last'.op = "transfer_funds" =>
        /\ Len(accounts') = Len(accounts)
        /\ SumOfBalances(accounts') = SumOfBalances(accounts)
        /\ IF last'.result = "ok"
           THEN \A i \in Changed : accounts[i].k \in {last'.a, last'.b}
           ELSE Cardinality(Changed) <= 2]_vars

\* C24's case: a transfer from a savings account has moved an amount to
\* another account, after interest had made the two balances differ.
C24_Witness ==
    /\ last.op = "transfer_funds"
    /\ last.result = "ok"
    /\ last.a # last.b
    /\ IsSavings(DictGet(accounts, last.a))
    /\ Bal(accounts, last.a) \notin {0, Unit}
    /\ Bal(accounts, last.b) = 2 * Unit

\* How many times the list s holds x.
Count(s, x) == Cardinality({j \in 1..Len(s) : s[j] = x})

\* C25: every account of the account map has a holder who is a customer of
\* the bank, and that customer's account_numbers holds the account's number
\* exactly once.
C25_NoOrphan ==
    \A i \in 1..Len(accounts) :
        LET acc == accounts[i].v
        IN  /\ DictHas(customers, acc.account_holder_id)
            /\ Count(DictGet(customers, acc.account_holder_id).account_numbers,
                     acc.account_number) = 1

AtOrAboveFloor(a) ==
    \A i \in 1..Len(a) : a[i].v.balance >= Floor(a[i].v)

\* C26: when no account is below its floor (0 for a savings account,
\* -overdraft_limit for a current account), as is the case when every
\* account was created at or above it, no account is below its floor after a
\* deposit, withdraw, transfer_funds or apply_all_interest call.
C26_FloorKept ==
    [][(/\ last'.op \in {"deposit", "withdraw", "transfer_funds",
                         "apply_all_interest"}
        /\ AtOrAboveFloor(accounts))
           => AtOrAboveFloor(accounts')]_vars

\* C26's case: a current account created on its floor, with the balance
\* -overdraft_limit, after the one deposit that has brought it to zero.
C26_Witness ==
    /\ last.op = "deposit"
    /\ last.result = "ok"
    /\ clock = 1
    /\ ~IsSavings(DictGet(accounts, last.a))
    /\ DictGet(accounts, last.a).overdraft_limit = Unit
    /\ Bal(accounts, last.a) = 0
    /\ effects[last.a] = 0

====
